---- MODULE Spec2Model ----
(***************************************************************************)
(* A model of syz-execprog as extended by SyzGPT (semantic mode): the      *)
(* worker pools of main, Context.run / Context.execute with the bounded    *)
(* retry of the executor, Context.getProgramIndex, Context.dumpCoverage    *)
(* with the global coverRecord, and saveToFile.                            *)
(***************************************************************************)
EXTENDS Integers, Sequences, FiniteSets, Bags, TLC

\* ------------------------------------------------------------------ bounds
Procs == 2          \* -procs: workers per pool
NumFiles == 2       \* source files named on the command line / in -progdir
MaxPerFile == 1     \* programs one source file can yield when loaded
MaxRepeat == 2      \* -repeat is drawn from 0..MaxRepeat
MaxRetry == 1       \* -retry
MaxLongRepeat == 1  \* -repeat of the runs with a coverage record or two pools
MaxDualProgs == 1   \* programs per list of the two-pool runs with a coverage record
MaxPos == 3         \* cap of the cursor when -repeat=0 (endless loop)
MaxCalls == 2       \* calls of one executed program
MaxPC == 1          \* raw program counters are 0..MaxPC
MaxCoverLen == 2    \* length of one call's Cover slice
MaxEntries == 3     \* entries of a coverRecord given to saveToFile
MaxCov == 1         \* coverage counts of such an entry are 0..MaxCov
MaxLen == 2         \* program lengths of such an entry are 1..MaxLen
MaxRecords == 2     \* records of one corpus file given to loadPrograms
MaxLine == 4        \* characters of a line given to fixUnbalancedParentheses
MaxDirFiles == 3    \* entries of the directory given to checkPrograms
progMaxCalls == 2   \* prog.MaxCalls, scaled down
MaxSeq == 1         \* the largest Seq of a corpus record given to parse
MaxRuns == 2        \* runs of parse on one corpus and directory

Pools == {0, 1}     \* 0: ctx (original order), 1: revCtx (reverse order)
Pids == 0 .. (Procs - 1)
NoVal == "none"

VARIABLES
    flagSemantic,   \* -semantic
    flagProgDir,    \* -progdir is set (TRUE) or empty (FALSE)
    flagCoverFile,  \* -coverfile is set (TRUE) or empty (FALSE)
    flagRepeat,     \* -repeat
    flagMaxRetry,   \* -retry
    flagNoDumpCall, \* -nodumpcall
    progs,          \* progs[c]: the program list of pool c (source file of each program)
    progFns,        \* progFns[c]: the file name list of pool c
    mainPc,         \* position of main
    proc,           \* "running", "exited", "fatal" (log.Fatalf) or "panic"
    pos,            \* pos[c]: Context.pos
    posMu,          \* posMu[c]: Context.posMu is locked
    shutdown,       \* shutdown[c]: the channel Context.shutdown is closed
    gate,           \* gate[c]: tickets of the gate entered and not yet left
    wk,             \* wk[c][p]: the goroutine running ctx.run(p, c)
    coverRecord,    \* the global map coverRecord
    execFailCnt,    \* the global counter execFailCnt
    report,         \* what saveToFile wrote, or NoVal
    returned,       \* history: returned[c] is the bag of indices getProgramIndex returned
    ran,            \* history: ran[c] is the bag of <<index, program position>> dispatched
    skipped,        \* history: number of dispatches that ended in a skip
    recWrites,      \* history: the bag of <<key, covType>> of the setCoverRecord calls
    lateRuns,       \* history: lateRuns[c][p] dispatches of worker p begun after close(shutdown)
    cvInfo,         \* the ProgInfo handed to dumpCoverage (coverage specification)
    cvOut,          \* what dumpCoverage wrote for cvInfo, or NoVal
    ldFiles,        \* the sources handed to loadPrograms (loading specification)
    ldOut,          \* what loadPrograms returned for ldFiles, or NoVal
    repairSt,       \* syz-repair: the locals of repairProgram, or NoVal
    parenSt,        \* syz-repair: input and result of fixUnbalancedParentheses, or NoVal
    validSt,        \* syz-validator: the run of checkPrograms, or NoVal
    parseSt         \* syz-db: the corpus, the directory and the runs of parse, or NoVal

vars == <<flagSemantic, flagProgDir, flagCoverFile, flagRepeat, flagMaxRetry,
          flagNoDumpCall, progs, progFns, mainPc, proc, pos, posMu, shutdown, gate, wk,
          coverRecord, execFailCnt, report, returned, ran, skipped, recWrites,
          lateRuns,
          cvInfo, cvOut, ldFiles, ldOut,
          repairSt, parenSt, validSt, parseSt>>

flagVars == <<flagSemantic, flagProgDir, flagCoverFile, flagRepeat, flagMaxRetry,
              flagNoDumpCall, progs, progFns>>
histVars == <<returned, ran, skipped, recWrites, lateRuns>>
cvVars == <<cvInfo, cvOut, ldFiles, ldOut>>
toolVars == <<repairSt, parenSt, validSt, parseSt>>
\* syz-execprog runs on its own: the other tools of the repository are not started
ToolsIdle ==
    /\ repairSt = NoVal
    /\ parenSt = NoVal
    /\ validSt = NoVal
    /\ parseSt = NoVal

\* ------------------------------------------------------------ pure helpers
RECURSIVE SumSeq(_)
SumSeq(s) == IF s = <<>> THEN 0 ELSE Head(s) + SumSeq(Tail(s))

RECURSIVE Copies(_, _)
Copies(x, n) == IF n = 0 THEN <<>> ELSE <<x>> \o Copies(x, n - 1)

\* A file name is a sequence of tokens <<text, number>>: <<"file", f>> is the
\* name of source file f, <<"prog", i>> is "prog" followed by the decimal i,
\* and SuffixRev is the text ".rev".
SuffixRev == <<".rev", 0>>
CoverPrefix == <<"coverfile_", 0>>

\* strings.TrimSuffix(s, ".rev")
TrimSuffixRev(s) ==
    IF Len(s) > 0 /\ s[Len(s)] = SuffixRev THEN SubSeq(s, 1, Len(s) - 1) ELSE s

\* A source file is [kind, entries]: kind "corpus" opens with db.Open and
\* entries[i] tells whether record i deserializes; kind "log" fails db.Open,
\* is read by os.ReadFile and ParseLog yields Len(entries) programs; kind
\* "unreadable" fails both.  A program is named by the index of its file.
RECURSIVE Deserialized(_, _)
Deserialized(f, entries) ==
    IF entries = <<>> THEN <<>>
    ELSE (IF Head(entries) THEN <<f>> ELSE <<>>) \o Deserialized(f, Tail(entries))

\* loadPrograms, lines 579-598: the loop over files; log.Fatalf ends it at
\* the first file os.ReadFile cannot read; logs are the lines it logs
RECURSIVE LoadFrom(_, _, _)
LoadFrom(f, files, acc) ==
    IF f > Len(files)
    THEN [fatal |-> FALSE, progs |-> acc, logs |-> <<<<"parsed %v programs", Len(acc)>>>>]
    ELSE IF files[f].kind = "corpus"
         THEN LoadFrom(f + 1, files, acc \o Deserialized(f, files[f].entries))
         ELSE IF files[f].kind = "unreadable"
              THEN [fatal |-> TRUE, progs |-> acc,
                    logs |-> <<<<"failed to read log file: %v", f>>>>]
              ELSE LoadFrom(f + 1, files, acc \o Copies(f, Len(files[f].entries)))

loadPrograms(files) == LoadFrom(1, files, <<>>)

\* n corpus files, file f holding yield[f] records that deserialize
CorpusFiles(n, yield) ==
    [f \in 1 .. n |-> [kind |-> "corpus", entries |-> Copies(TRUE, yield[f])]]

\* main: the name lists built from the command line (or the directory)
fileNameList(n) == [f \in 1 .. n |-> <<<<"file", f>>>>]
reverseFileNameList(n) == [f \in 1 .. n |-> <<<<"file", f>>, SuffixRev>>]

\* ------------------------------------------------- coverage (dumpCoverage)
\* A CallInfo is its Cover slice, a sequence of raw 32-bit PCs (duplicates are
\* possible: createConfig clears FlagDedupCover when -coverfile is set).
\* A ProgInfo is [Calls |-> sequence of CallInfo, Extra |-> CallInfo].
HexChars == <<"0", "1", "2", "3", "4", "5", "6", "7",
              "8", "9", "a", "b", "c", "d", "e", "f">>

\* the 8 hexadecimal digits of a 32-bit value, most significant first
RECURSIVE Nibbles(_, _)
Nibbles(n, k) == IF k = 0 THEN <<>> ELSE Nibbles(n \div 16, k - 1) \o <<n % 16>>

\* the constant 0xffffffff of dumpCoverage, as its 8 hexadecimal digits
BaseFFFFFFFF == <<15, 15, 15, 15, 15, 15, 15, 15>>

\* cover.RestorePC(pc, base) = uint64(base)<<32 + uint64(pc), as 16 digits
RestorePC(pc, base) == base \o Nibbles(pc, 8)

\* fmt.Sprintf("0x%x", v): no leading zeros, at least one digit
RECURSIVE StripZeros(_)
StripZeros(d) == IF Len(d) > 1 /\ Head(d) = 0 THEN StripZeros(Tail(d)) ELSE d

FormatHex(d) ==
    LET t == StripZeros(d) IN <<"0x">> \o [i \in 1 .. Len(t) |-> HexChars[t[i] + 1]]

\* the PC printed without its last hexadecimal digit
PCString_Truncated(pc) ==
    LET d == RestorePC(pc, BaseFFFFFFFF) IN FormatHex(SubSeq(d, 1, Len(d) - 1))

\* dumpCoverage, line 520: fmt.Sprintf("0x%x", cover.RestorePC(pc, 0xffffffff))
PCString(pc) == FormatHex(RestorePC(pc, BaseFFFFFFFF))

\* dumpCoverage, lines 514-526: the loop over info.Calls and inf.Cover
AddPC(st, pc) ==
    LET newPC == PCString(pc) IN
    IF newPC \notin st.totalMap
    THEN [st EXCEPT !.totalMap = @ \cup {newPC}, !.covNum = @ + 1]
    ELSE st

RECURSIVE ScanCover(_, _)
ScanCover(st, cover) ==
    IF cover = <<>> THEN st ELSE ScanCover(AddPC(st, Head(cover)), Tail(cover))

RECURSIVE ScanCalls(_, _)
ScanCalls(st, calls) ==
    IF calls = <<>> THEN st
    ELSE ScanCalls(ScanCover([st EXCEPT !.progLength = @ + 1], Head(calls)), Tail(calls))

\* the loop also run over the cover of the extra call
TotalCoverage_WithExtra(info) ==
    ScanCalls([totalMap |-> {}, covNum |-> 0, progLength |-> 0],
              Append(info.Calls, info.Extra))

TotalCoverage(info) ==
    ScanCalls([totalMap |-> {}, covNum |-> 0, progLength |-> 0], info.Calls)

\* dumpCallCoverage: no file for an empty Cover, else one line per PC
dumpCallCoverage(cover) ==
    IF Len(cover) = 0 THEN NoVal ELSE [i \in 1 .. Len(cover) |-> PCString(cover[i])]

\* the artifacts dumpCoverage writes for one ProgInfo; the ".total" file has
\* one line per key of totalMap (in the map's iteration order, which is
\* unspecified: it is kept as the set of its lines)
CoverageArtifacts(info, noDumpCall, semantic) ==
    LET st == TotalCoverage(info) IN
    [calls |-> [i \in 1 .. Len(info.Calls) |->
                  IF ~noDumpCall /\ ~semantic
                  THEN dumpCallCoverage(info.Calls[i]) ELSE NoVal],
     total |-> st.totalMap,
     extra |-> dumpCallCoverage(info.Extra),
     covNum |-> st.covNum,
     progLength |-> st.progLength]

RECURSIVE SeqsUpTo(_, _)
SeqsUpTo(S, n) ==
    IF n = 0 THEN {<<>>}
    ELSE LET shorter == SeqsUpTo(S, n - 1) IN
         shorter \cup {Append(s, x) : s \in shorter, x \in S}

Covers == SeqsUpTo(0 .. MaxPC, MaxCoverLen)
ExtraCovers == SeqsUpTo(0 .. MaxPC, 1)

\* ------------------------------------------------------- the worker pools
\* The ProgInfo values env.Exec returns in the scheduling specification.
SchedInfos == {[Calls |-> <<<<0>>>>, Extra |-> <<>>],
               [Calls |-> <<<<0>>, <<0, 1>>>>, Extra |-> <<>>]}

\* the outcomes of env.Exec: nil, prog.ErrExecBufferTooSmall or another error
ExecErrors == {"nil", "ErrExecBufferTooSmall", "err"}

\* the locals of run and execute: ticket is TRUE while the goroutine holds a
\* ticket of the gate, hasInfo is info != nil of the last env.Exec
IdleW == [pc |-> "idle", idx |-> 0, try |-> 0, err |-> NoVal, result |-> NoVal,
          covNum |-> 0, progLength |-> 0, ok |-> FALSE, cov0 |-> 0, cov1 |-> 0,
          tmp |-> 0, calls |-> 0, fails |-> 0, retries |-> 0,
          ticket |-> FALSE, hasInfo |-> FALSE]

\* main, lines 186 and 210: ipc.NewGate(2**flagProcs, gateCallback)
GateCapacity == 2 * Procs

\* Gate.Enter blocks until a slot of the gate is free
GateHasSlot(c) == gate[c] < GateCapacity

\* getProgramIndex without posMu: the lock is always granted
PosMuFree_NoLock(c) == TRUE

\* ctx.posMu.Lock() of getProgramIndex succeeds only when the mutex is free
PosMuFree(c) == ~posMu[c]

\* every error of env.Exec taken as a failure, the sentinel included
ExecFailed_AnyError(err) == err # "nil"

\* execute, line 396: err != nil && err != prog.ErrExecBufferTooSmall
ExecFailed(err) == err # "nil" /\ err # "ErrExecBufferTooSmall"

\* the budget counted in executor calls instead of retries
RetryExhausted_Attempts(try) == try + 1 >= flagMaxRetry

\* execute, line 397: the retry budget is exhausted
RetryExhausted(try) == try > flagMaxRetry

\* the repeat limit compared with > instead of >=
RepeatDone_OffByOne(c, idx) == flagRepeat > 0 /\ idx > Len(progs[c]) * flagRepeat

\* run, line 376: the repeat limit is reached
RepeatDone(c, idx) == flagRepeat > 0 /\ idx >= Len(progs[c]) * flagRepeat

\* main without wg.Wait(): the wait returns at once
PoolDone_NoWait(c) == TRUE

\* wg.Wait() / revWg.Wait(): every worker of pool c has returned
PoolDone(c) == \A p \in Pids : wk[c][p].pc = "done"

\* execute, lines 421-426: the name of the coverage file of dispatch idx
covFileName(c, idx) ==
    IF flagProgDir
    THEN <<CoverPrefix>> \o progFns[c][(idx % Len(progFns[c])) + 1]
    ELSE <<CoverPrefix, <<"prog", idx>>>>

\* getCoverRecord: (ok, values[0], values[1]) under coverRecordMu
getCoverRecord(key) ==
    IF key \in DOMAIN coverRecord
    THEN [ok |-> TRUE, cov0 |-> coverRecord[key][1], cov1 |-> coverRecord[key][2]]
    ELSE [ok |-> FALSE, cov0 |-> 0, cov1 |-> 0]

\* setCoverRecord: coverRecord[fileName] = [3]int{value1, value2, progLength}
setCoverRecord(key, value1, value2, progLength) ==
    [k \in DOMAIN coverRecord \cup {key} |->
        IF k = key THEN <<value1, value2, progLength>> ELSE coverRecord[k]]

Live == proc = "running"

\* run without the select on ctx.shutdown: the loop always goes on
RunTop_IgnoreShutdown(c, p) ==
    /\ Live /\ wk[c][p].pc = "top"
    /\ wk' = [wk EXCEPT ![c][p].pc = "getidx"]
    /\ UNCHANGED <<flagVars, mainPc, proc, pos, posMu, shutdown, gate, coverRecord,
                   execFailCnt, report, histVars, cvVars, toolVars>>

\* run, lines 370-374: the select on ctx.shutdown at the top of the loop
RunTop(c, p) ==
    /\ Live /\ wk[c][p].pc = "top"
    /\ wk' = [wk EXCEPT ![c][p].pc = IF shutdown[c] THEN "done" ELSE "getidx"]
    /\ UNCHANGED <<flagVars, mainPc, proc, pos, posMu, shutdown, gate, coverRecord,
                   execFailCnt, report, histVars, cvVars, toolVars>>

\* getProgramIndex, lines 566-567: posMu.Lock(); idx := ctx.pos
GetIndexLock(c, p) ==
    /\ Live /\ wk[c][p].pc = "getidx"
    /\ PosMuFree(c)
    /\ flagRepeat > 0 \/ pos[c] < MaxPos
    /\ posMu' = [posMu EXCEPT ![c] = TRUE]
    /\ wk' = [wk EXCEPT ![c][p].pc = "getidx2", ![c][p].idx = pos[c]]
    /\ UNCHANGED <<flagVars, mainPc, proc, pos, shutdown, gate, coverRecord,
                   execFailCnt, report, histVars, cvVars, toolVars>>

\* getProgramIndex returning without posMu.Unlock()
GetIndexUnlock_NoUnlock(c, p) ==
    /\ Live /\ wk[c][p].pc = "getidx2"
    /\ pos' = [pos EXCEPT ![c] = @ + 1]
    /\ IF Len(progs[c]) = 0
       THEN \* integer divide by zero: the runtime panics
            /\ proc' = "panic"
            /\ UNCHANGED <<posMu, wk, returned, ran, lateRuns>>
       ELSE /\ UNCHANGED posMu
            /\ returned' = [returned EXCEPT ![c] = @ (+) SetToBag({wk[c][p].idx})]
            /\ IF RepeatDone(c, wk[c][p].idx)
               THEN /\ wk' = [wk EXCEPT ![c][p].pc = "done"]
                    /\ UNCHANGED <<ran, lateRuns>>
               ELSE /\ wk' = [wk EXCEPT ![c][p].pc = "enter"]
                    /\ lateRuns' = IF shutdown[c]
                                   THEN [lateRuns EXCEPT ![c][p] = @ + 1]
                                   ELSE lateRuns
                    /\ ran' = [ran EXCEPT ![c] = @ (+) SetToBag(
                                 {<<wk[c][p].idx, wk[c][p].idx % Len(progs[c])>>})]
            /\ UNCHANGED proc
    /\ UNCHANGED <<flagVars, mainPc, shutdown, gate, coverRecord,
                   execFailCnt, report, skipped, recWrites, cvVars, toolVars>>

\* getProgramIndex, lines 568-574: ctx.pos++; idx%len(ctx.progs); posMu.Unlock();
\* then run, lines 376-380: stop at the repeat limit, else dispatch
\* progs[idx%len(ctx.progs)]
GetIndexUnlock(c, p) ==
    /\ Live /\ wk[c][p].pc = "getidx2"
    /\ pos' = [pos EXCEPT ![c] = @ + 1]
    /\ IF Len(progs[c]) = 0
       THEN \* integer divide by zero: the runtime panics
            /\ proc' = "panic"
            /\ UNCHANGED <<posMu, wk, returned, ran, lateRuns>>
       ELSE /\ posMu' = [posMu EXCEPT ![c] = FALSE]
            /\ returned' = [returned EXCEPT ![c] = @ (+) SetToBag({wk[c][p].idx})]
            /\ IF RepeatDone(c, wk[c][p].idx)
               THEN /\ wk' = [wk EXCEPT ![c][p].pc = "done"]
                    /\ UNCHANGED <<ran, lateRuns>>
               ELSE /\ wk' = [wk EXCEPT ![c][p].pc = "enter"]
                    /\ lateRuns' = IF shutdown[c]
                                   THEN [lateRuns EXCEPT ![c][p] = @ + 1]
                                   ELSE lateRuns
                    /\ ran' = [ran EXCEPT ![c] = @ (+) SetToBag(
                                 {<<wk[c][p].idx, wk[c][p].idx % Len(progs[c])>>})]
            /\ UNCHANGED proc
    /\ UNCHANGED <<flagVars, mainPc, shutdown, gate, coverRecord,
                   execFailCnt, report, skipped, recWrites, cvVars, toolVars>>

\* execute without gate.Enter: the dispatch starts with no ticket
GateEnter_NoTicket(c, p) ==
    /\ Live /\ wk[c][p].pc = "enter"
    /\ wk' = [wk EXCEPT ![c][p].pc = "exec"]
    /\ UNCHANGED <<flagVars, mainPc, proc, pos, posMu, shutdown, gate, coverRecord,
                   execFailCnt, report, histVars, cvVars, toolVars>>

\* execute, line 386: ticket := ctx.gate.Enter()
GateEnter(c, p) ==
    /\ Live /\ wk[c][p].pc = "enter"
    /\ GateHasSlot(c)
    /\ gate' = [gate EXCEPT ![c] = @ + 1]
    /\ wk' = [wk EXCEPT ![c][p].pc = "exec", ![c][p].ticket = TRUE]
    /\ UNCHANGED <<flagVars, mainPc, proc, pos, posMu, shutdown, coverRecord,
                   execFailCnt, report, histVars, cvVars, toolVars>>

\* execute, lines 395-411: env.Exec fails with an error other than
\* ErrExecBufferTooSmall
ExecFail(c, p) ==
    /\ Live /\ wk[c][p].pc = "exec"
    /\ \E err \in ExecErrors :
         /\ ExecFailed(err)
         /\ IF RetryExhausted(wk[c][p].try)
            THEN IF flagProgDir
                 THEN \* line 401: execFailCnt += 1 is not synchronized; this
                      \* is its load, FailCntStore is its store
                      /\ wk' = [wk EXCEPT ![c][p].pc = "failcnt",
                                          ![c][p].fails = @ + 1,
                                          ![c][p].calls = @ + 1,
                                          ![c][p].err = err, ![c][p].result = "skip",
                                          ![c][p].tmp = execFailCnt]
                      /\ UNCHANGED proc
                 ELSE /\ wk' = [wk EXCEPT ![c][p].fails = @ + 1, ![c][p].err = err,
                                          ![c][p].calls = @ + 1,
                                          ![c][p].result = "fatal"]
                      /\ proc' = "fatal"
            ELSE \* time.Sleep(time.Second); continue
                 /\ wk' = [wk EXCEPT ![c][p].try = @ + 1, ![c][p].fails = @ + 1,
                                     ![c][p].err = err,
                                     ![c][p].calls = @ + 1, ![c][p].retries = @ + 1]
                 /\ UNCHANGED proc
    /\ UNCHANGED <<flagVars, mainPc, pos, posMu, shutdown, gate, coverRecord,
                   execFailCnt, report, histVars, cvVars, toolVars>>

\* execute, lines 395-396 and 412-433: env.Exec returns nil or
\* ErrExecBufferTooSmall, with info present or nil; with info and -coverfile,
\* dumpCoverage lines 505-530: the totals of info and getCoverRecord(recordKey)
ExecOk(c, p) ==
    /\ Live /\ wk[c][p].pc = "exec"
    /\ \E err \in ExecErrors, present \in BOOLEAN, info \in SchedInfos :
         /\ ~ExecFailed(err)
         /\ IF present /\ flagCoverFile
            THEN LET st == TotalCoverage(info)
                     r == getCoverRecord(TrimSuffixRev(covFileName(c, wk[c][p].idx)))
                 IN wk' = [wk EXCEPT ![c][p].pc = "dump", ![c][p].err = err,
                                  ![c][p].calls = @ + 1,
                                  ![c][p].result = "success",
                                  ![c][p].hasInfo = TRUE,
                                  ![c][p].covNum = st.covNum,
                                  ![c][p].progLength = st.progLength,
                                  ![c][p].ok = r.ok, ![c][p].cov0 = r.cov0,
                                  ![c][p].cov1 = r.cov1]
            ELSE wk' = [wk EXCEPT ![c][p].pc = "leave", ![c][p].err = err,
                                  ![c][p].calls = @ + 1,
                                  ![c][p].hasInfo = present,
                                  ![c][p].result = "success"]
    /\ UNCHANGED <<flagVars, mainPc, proc, pos, posMu, shutdown, gate, coverRecord,
                   execFailCnt, report, histVars, cvVars, toolVars>>

\* the skip going on to the coverage collection instead of leaving the loop
FailCntStore_ThenDump(c, p) ==
    /\ Live /\ wk[c][p].pc = "failcnt"
    /\ execFailCnt' = wk[c][p].tmp + 1
    /\ skipped' = skipped + 1
    /\ wk' = [wk EXCEPT ![c][p].pc = IF flagCoverFile THEN "dump" ELSE "leave"]
    /\ UNCHANGED <<flagVars, mainPc, proc, pos, posMu, shutdown, gate, coverRecord,
                   report, returned, ran, recWrites, lateRuns, cvVars, toolVars>>

\* execute, lines 401-402: the store of execFailCnt += 1, then break
FailCntStore(c, p) ==
    /\ Live /\ wk[c][p].pc = "failcnt"
    /\ execFailCnt' = wk[c][p].tmp + 1
    /\ skipped' = skipped + 1
    /\ wk' = [wk EXCEPT ![c][p].pc = "leave"]
    /\ UNCHANGED <<flagVars, mainPc, proc, pos, posMu, shutdown, gate, coverRecord,
                   report, returned, ran, recWrites, lateRuns, cvVars, toolVars>>

\* the record write with a reverse-mode record creating a missing entry
RecordAfter_ReverseCreates(covType, key, w) ==
    IF covType = 0
    THEN IF w.ok THEN coverRecord
         ELSE setCoverRecord(key, w.covNum, w.cov1, w.progLength)
    ELSE setCoverRecord(key, w.cov0, w.covNum, w.progLength)

\* dumpCoverage, lines 531-545: the write to coverRecord for covType
RecordAfter(covType, key, w) ==
    IF covType = 0
    THEN IF w.ok THEN coverRecord
         ELSE setCoverRecord(key, w.covNum, w.cov1, w.progLength)
    ELSE IF w.ok THEN setCoverRecord(key, w.cov0, w.covNum, w.progLength)
         ELSE coverRecord

\* dumpCoverage, lines 531-545: setCoverRecord is called for covType
RecordWritten(covType, w) == IF covType = 0 THEN ~w.ok ELSE w.ok

\* dumpCoverage, lines 531-562: the record write, then the ".total" and
\* ".extra" files; a failed osutil.WriteFile is fatal
DumpSet(c, p) ==
    /\ Live /\ wk[c][p].pc = "dump"
    /\ LET key == TrimSuffixRev(covFileName(c, wk[c][p].idx)) IN
         /\ coverRecord' = RecordAfter(c, key, wk[c][p])
         /\ recWrites' = IF RecordWritten(c, wk[c][p])
                         THEN recWrites (+) SetToBag({<<key, c>>})
                         ELSE recWrites
    /\ \E written \in BOOLEAN :
         IF written
         THEN wk' = [wk EXCEPT ![c][p].pc = "leave"] /\ UNCHANGED proc
         ELSE proc' = "fatal" /\ UNCHANGED wk
    /\ UNCHANGED <<flagVars, mainPc, pos, posMu, shutdown, gate,
                   execFailCnt, report, returned, ran, skipped, lateRuns, cvVars, toolVars>>

\* execute without the deferred Leave: the ticket is never given back
GateLeave_NoRelease(c, p) ==
    /\ Live /\ wk[c][p].pc = "leave"
    /\ wk' = [wk EXCEPT ![c][p] = [IdleW EXCEPT !.pc = "top"]]
    /\ UNCHANGED <<flagVars, mainPc, proc, pos, posMu, shutdown, gate, coverRecord,
                   execFailCnt, report, histVars, cvVars, toolVars>>

\* execute, line 387: defer ctx.gate.Leave(ticket), then back to the loop of run
GateLeave(c, p) ==
    /\ Live /\ wk[c][p].pc = "leave"
    /\ gate' = [gate EXCEPT ![c] = @ - 1]
    /\ wk' = [wk EXCEPT ![c][p] = [IdleW EXCEPT !.pc = "top"]]
    /\ UNCHANGED <<flagVars, mainPc, proc, pos, posMu, shutdown, coverRecord,
                   execFailCnt, report, histVars, cvVars, toolVars>>

\* osutil.HandleInterrupts(ctx.shutdown): an interrupt closes the channel of
\* the pool main is waiting for
Interrupt(c) ==
    /\ Live /\ mainPc = (IF c = 0 THEN "wait0" ELSE "wait1")
    /\ ~shutdown[c]
    /\ shutdown' = [shutdown EXCEPT ![c] = TRUE]
    /\ UNCHANGED <<flagVars, mainPc, proc, pos, posMu, gate, wk, coverRecord,
                   execFailCnt, report, histVars, cvVars, toolVars>>

\* ------------------------------------------------------------- saveToFile
\* float64(num) / float64(den) * 100 printed with "%.2f": the number of
\* hundredths, rounded to nearest (ties to even); 0/0 prints NaN
Rate(num, den) ==
    IF den = 0 THEN (IF num = 0 THEN "NaN" ELSE "+Inf")
    ELSE LET q == (num * 10000) \div den
             r == (num * 10000) % den
         IN IF 2 * r < den THEN q
            ELSE IF 2 * r > den THEN q + 1
            ELSE IF q % 2 = 0 THEN q ELSE q + 1

\* the loop body with cov0 >= cov1 taken as a win
ClassifyEntry_WinOnEqual(cnt, value) ==
    LET cov0 == value[1]
        cov1 == value[2]
        progLength == value[3]
        one == IF progLength = 1 THEN 1 ELSE 0
    IN [totalProgCnt |-> cnt.totalProgCnt + 1,
        oneLineProgCnt |-> cnt.oneLineProgCnt + one,
        totalWinCnt |-> cnt.totalWinCnt + (IF cov0 >= cov1 THEN 1 ELSE 0),
        oneLineWinCnt |-> cnt.oneLineWinCnt + (IF cov0 >= cov1 THEN one ELSE 0),
        totalEqualCnt |-> cnt.totalEqualCnt,
        oneLineEqualCnt |-> cnt.oneLineEqualCnt,
        totalLoseCnt |-> cnt.totalLoseCnt + (IF cov0 < cov1 THEN 1 ELSE 0),
        oneLineLoseCnt |-> cnt.oneLineLoseCnt + (IF cov0 < cov1 THEN one ELSE 0)]

\* saveToFile, lines 272-295: one iteration of the loop over coverRecord
ClassifyEntry(cnt, value) ==
    LET cov0 == value[1]
        cov1 == value[2]
        progLength == value[3]
        one == IF progLength = 1 THEN 1 ELSE 0
    IN [totalProgCnt |-> cnt.totalProgCnt + 1,
        oneLineProgCnt |-> cnt.oneLineProgCnt + one,
        totalWinCnt |-> cnt.totalWinCnt + (IF cov0 > cov1 THEN 1 ELSE 0),
        oneLineWinCnt |-> cnt.oneLineWinCnt + (IF cov0 > cov1 THEN one ELSE 0),
        totalEqualCnt |-> cnt.totalEqualCnt + (IF cov0 = cov1 THEN 1 ELSE 0),
        oneLineEqualCnt |-> cnt.oneLineEqualCnt + (IF cov0 = cov1 THEN one ELSE 0),
        totalLoseCnt |-> cnt.totalLoseCnt + (IF cov0 < cov1 THEN 1 ELSE 0),
        oneLineLoseCnt |-> cnt.oneLineLoseCnt + (IF cov0 < cov1 THEN one ELSE 0)]

ZeroCounters ==
    [totalProgCnt |-> 0, oneLineProgCnt |-> 0, totalWinCnt |-> 0, oneLineWinCnt |-> 0,
     totalEqualCnt |-> 0, oneLineEqualCnt |-> 0, totalLoseCnt |-> 0, oneLineLoseCnt |-> 0]

\* the loop "for key, value := range coverRecord" (the order is unspecified)
RECURSIVE RangeRecord(_, _, _)
RangeRecord(cnt, rec, keys) ==
    IF keys = {} THEN cnt
    ELSE LET k == CHOOSE k \in keys : TRUE IN
         RangeRecord(ClassifyEntry(cnt, rec[k]), rec, keys \ {k})

\* the rates with the one-line wins left in the denominator of ECER
Rates_SameDenominator(cnt) ==
    [OCER |-> Rate(cnt.totalWinCnt, cnt.totalProgCnt),
     ECER |-> Rate(cnt.totalWinCnt - cnt.oneLineWinCnt, cnt.totalProgCnt),
     CER |-> Rate(cnt.totalWinCnt - cnt.oneLineWinCnt, cnt.totalProgCnt)]

\* saveToFile, lines 306-308: the three rates from the counters
Rates(cnt) ==
    [OCER |-> Rate(cnt.totalWinCnt, cnt.totalProgCnt),
     ECER |-> Rate(cnt.totalWinCnt - cnt.oneLineWinCnt,
                   cnt.totalProgCnt - cnt.oneLineWinCnt),
     CER |-> Rate(cnt.totalWinCnt - cnt.oneLineWinCnt, cnt.totalProgCnt)]

\* saveToFile writing the summary block only
saveToFile_NoRows(rec, failCnt) ==
    LET cnt == RangeRecord(ZeroCounters, rec, DOMAIN rec)
        rates == Rates(cnt)
    IN [rows |-> {},
        cnt |-> cnt,
        execFails |-> failCnt,
        OCER |-> rates.OCER,
        ECER |-> rates.ECER,
        CER |-> rates.CER]

\* saveToFile, lines 255-325: the data rows and the summary block
saveToFile(rec, failCnt) ==
    LET cnt == RangeRecord(ZeroCounters, rec, DOMAIN rec)
        rates == Rates(cnt)
    IN [rows |-> {<<k, rec[k][1], rec[k][2], rec[k][3]>> : k \in DOMAIN rec},
        cnt |-> cnt,
        execFails |-> failCnt,
        OCER |-> rates.OCER,
        ECER |-> rates.ECER,
        CER |-> rates.CER]

\* ------------------------------------------------------------------- main
\* main, lines 146-199: return when nothing was loaded, else build ctx and
\* start the workers of the original-order pool
MainStart ==
    /\ Live /\ mainPc = "start"
    /\ IF Len(progs[0]) = 0 /\ Len(progs[1]) = 0
       THEN mainPc' = "exit" /\ proc' = "exited" /\ UNCHANGED wk
       ELSE /\ mainPc' = "wait0"
            /\ wk' = [wk EXCEPT ![0] = [p \in Pids |-> [IdleW EXCEPT !.pc = "top"]]]
            /\ UNCHANGED proc
    /\ UNCHANGED <<flagVars, pos, posMu, shutdown, gate, coverRecord,
                   execFailCnt, report, histVars, cvVars, toolVars>>

\* main with revCtx built over the shutdown channel of ctx
MainWait0_SharedShutdown ==
    /\ Live /\ mainPc = "wait0"
    /\ PoolDone(0)
    /\ IF flagSemantic
       THEN /\ mainPc' = "wait1"
            /\ shutdown' = [shutdown EXCEPT ![1] = shutdown[0]]
            /\ wk' = [wk EXCEPT ![1] = [p \in Pids |-> [IdleW EXCEPT !.pc = "top"]]]
       ELSE mainPc' = "save" /\ UNCHANGED <<wk, shutdown>>
    /\ UNCHANGED <<flagVars, proc, pos, posMu, gate, coverRecord,
                   execFailCnt, report, histVars, cvVars, toolVars>>

\* main, lines 200-224: wg.Wait(), then in semantic mode build revCtx, with
\* a shutdown channel of its own (line 211), and start the workers of the
\* reverse-order pool
MainWait0 ==
    /\ Live /\ mainPc = "wait0"
    /\ PoolDone(0)
    /\ IF flagSemantic
       THEN /\ mainPc' = "wait1"
            /\ shutdown' = [shutdown EXCEPT ![1] = FALSE]
            /\ wk' = [wk EXCEPT ![1] = [p \in Pids |-> [IdleW EXCEPT !.pc = "top"]]]
       ELSE mainPc' = "save" /\ UNCHANGED <<wk, shutdown>>
    /\ UNCHANGED <<flagVars, proc, pos, posMu, gate, coverRecord,
                   execFailCnt, report, histVars, cvVars, toolVars>>

\* main without revWg.Wait(): main goes on while the reverse pool runs
MainWait1_NoWait ==
    /\ Live /\ mainPc = "wait1"
    /\ mainPc' = "save"
    /\ UNCHANGED <<flagVars, proc, pos, posMu, shutdown, gate, wk, coverRecord,
                   execFailCnt, report, histVars, cvVars, toolVars>>

\* main, line 225: revWg.Wait()
MainWait1 ==
    /\ Live /\ mainPc = "wait1"
    /\ PoolDone(1)
    /\ mainPc' = "save"
    /\ UNCHANGED <<flagVars, proc, pos, posMu, shutdown, gate, wk, coverRecord,
                   execFailCnt, report, histVars, cvVars, toolVars>>

\* main, lines 230-241: saveToFile in semantic mode with -coverfile; an error
\* of saveToFile (os.Create, WriteString) is fatal
MainSave ==
    /\ Live /\ mainPc = "save"
    /\ IF flagSemantic /\ flagCoverFile
       THEN \E saved \in BOOLEAN :
              IF saved
              THEN /\ report' = saveToFile(coverRecord, execFailCnt)
                   /\ mainPc' = "exit" /\ proc' = "exited"
              ELSE proc' = "fatal" /\ UNCHANGED <<report, mainPc>>
       ELSE mainPc' = "exit" /\ proc' = "exited" /\ UNCHANGED report
    /\ UNCHANGED <<flagVars, pos, posMu, shutdown, gate, wk, coverRecord,
                   execFailCnt, histVars, cvVars, toolVars>>

\* ------------------------------------------------------- the specification
Yields == [1 .. NumFiles -> 0 .. MaxPerFile]

\* the state of the pools, the record and the history before main builds ctx
PoolsInit ==
    /\ proc = "running"
    /\ pos = [c \in Pools |-> 0]
    /\ posMu = [c \in Pools |-> FALSE]
    /\ shutdown = [c \in Pools |-> FALSE]
    /\ gate = [c \in Pools |-> 0]
    /\ wk = [c \in Pools |-> [p \in Pids |-> IdleW]]
    /\ report = NoVal
    /\ returned = [c \in Pools |-> EmptyBag]
    /\ ran = [c \in Pools |-> EmptyBag]
    /\ skipped = 0
    /\ recWrites = EmptyBag
    /\ lateRuns = [c \in Pools |-> [p \in Pids |-> 0]]

\* main, lines 103-147: the lists main builds from the flags and the sources
ListsInit ==
    /\ \E y0 \in Yields, y1 \in Yields :
         progs = [c \in Pools |->
                    IF c = 0 THEN loadPrograms(CorpusFiles(NumFiles, y0)).progs
                    ELSE IF flagSemantic
                         THEN loadPrograms(CorpusFiles(NumFiles, y1)).progs
                         ELSE loadPrograms(<<>>).progs]
    /\ progFns = [c \in Pools |->
                    IF c = 0 THEN fileNameList(NumFiles)
                    ELSE IF flagSemantic THEN reverseFileNameList(NumFiles) ELSE <<>>]

\* The runs explored: every flag combination, with the longer runs (a repeat
\* count above MaxLongRepeat, lists above MaxDualProgs programs) left to the
\* modes that keep no coverage record or run one pool.
RunSize ==
    /\ (flagCoverFile \/ flagSemantic) => flagRepeat \in 1 .. MaxLongRepeat
    /\ (flagCoverFile /\ flagSemantic) =>
           \A c \in Pools : Len(progs[c]) <= MaxDualProgs

Init ==
    /\ flagSemantic \in BOOLEAN
    /\ flagProgDir \in BOOLEAN
    /\ flagCoverFile \in BOOLEAN
    /\ flagRepeat \in 0 .. MaxRepeat
    /\ flagMaxRetry = MaxRetry
    /\ flagNoDumpCall = FALSE
    /\ ListsInit
    /\ RunSize
    /\ mainPc = "start"
    /\ PoolsInit
    /\ coverRecord = <<>>
    /\ execFailCnt = 0
    /\ cvInfo = NoVal
    /\ cvOut = NoVal
    /\ ldFiles = NoVal
    /\ ldOut = NoVal
    /\ ToolsIdle

Worker(c, p) ==
    \/ RunTop(c, p)
    \/ GetIndexLock(c, p)
    \/ GetIndexUnlock(c, p)
    \/ GateEnter(c, p)
    \/ ExecFail(c, p)
    \/ ExecOk(c, p)
    \/ FailCntStore(c, p)
    \/ DumpSet(c, p)
    \/ GateLeave(c, p)

Next ==
    \/ MainStart
    \/ MainWait0
    \/ MainWait1
    \/ MainSave
    \/ \E c \in Pools : Interrupt(c)
    \/ \E c \in Pools, p \in Pids : Worker(c, p)

Spec == Init /\ [][Next]_vars

\* ------------------------------------------- fair scheduling (SpecLive)
\* The Go scheduler runs every runnable goroutine, and every call of env.Exec
\* returns: each step of main and of every worker that stays enabled is
\* eventually taken.  Interrupts are not required to happen.
Fairness ==
    /\ WF_vars(MainStart \/ MainWait0 \/ MainWait1 \/ MainSave)
    /\ \A c \in Pools, p \in Pids : WF_vars(Worker(c, p))

\* the runs of Init with one program per list, loaded from the first file
InitLive ==
    /\ Init
    /\ \A c \in Pools : progs[c] \in {<<>>, <<1>>}

SpecLive == InitLive /\ [][Next]_vars /\ Fairness

\* --------------------------- one file dispatched MaxRepeat times (SpecRecord)
\* The runs with a coverage record in which one source file holding one
\* program is dispatched MaxRepeat times by each pool, with -progdir: every
\* dispatch of a pool records under the same key.
InitRecord ==
    /\ flagSemantic \in BOOLEAN
    /\ flagProgDir = TRUE
    /\ flagCoverFile = TRUE
    /\ flagRepeat = MaxRepeat
    /\ flagMaxRetry = MaxRetry
    /\ flagNoDumpCall = FALSE
    /\ progs = [c \in Pools |->
                  IF c = 0 \/ flagSemantic
                  THEN loadPrograms(CorpusFiles(1, <<1>>)).progs
                  ELSE loadPrograms(<<>>).progs]
    /\ progFns = [c \in Pools |->
                    IF c = 0 THEN fileNameList(1)
                    ELSE IF flagSemantic THEN reverseFileNameList(1) ELSE <<>>]
    /\ mainPc = "start"
    /\ PoolsInit
    /\ coverRecord = <<>>
    /\ execFailCnt = 0
    /\ cvInfo = NoVal
    /\ cvOut = NoVal
    /\ ldFiles = NoVal
    /\ ldOut = NoVal
    /\ ToolsIdle

SpecRecord == InitRecord /\ [][Next]_vars

\* ---------------------------------------- loadPrograms on its own (SpecLoad)
\* loadPrograms applied to one list of sources
LoadPrograms ==
    /\ mainPc = "load"
    /\ mainPc' = "loaded"
    /\ ldOut' = loadPrograms(ldFiles)
    /\ UNCHANGED <<flagVars, proc, pos, posMu, shutdown, gate, wk, coverRecord,
                   execFailCnt, report, histVars, cvInfo, cvOut, ldFiles, toolVars>>

SourceFiles ==
    {[kind |-> "corpus", entries |-> e] : e \in SeqsUpTo(BOOLEAN, MaxRecords)}
    \cup {[kind |-> "log", entries |-> Copies(TRUE, n)] : n \in 0 .. MaxPerFile}
    \cup {[kind |-> "unreadable", entries |-> <<>>]}

InitLoad ==
    /\ flagSemantic = FALSE
    /\ flagProgDir = FALSE
    /\ flagCoverFile = FALSE
    /\ flagRepeat = 1
    /\ flagMaxRetry = MaxRetry
    /\ flagNoDumpCall = FALSE
    /\ progs = [c \in Pools |-> <<>>]
    /\ progFns = [c \in Pools |-> <<>>]
    /\ mainPc = "load"
    /\ PoolsInit
    /\ coverRecord = <<>>
    /\ execFailCnt = 0
    /\ cvInfo = NoVal
    /\ cvOut = NoVal
    /\ \E n \in 0 .. NumFiles : ldFiles \in [1 .. n -> SourceFiles]
    /\ ldOut = NoVal
    /\ ToolsIdle

SpecLoad == InitLoad /\ [][LoadPrograms]_vars

\* ---------------------------------------- dumpCoverage on its own (SpecCover)
\* dumpCoverage applied to one ProgInfo
DumpCoverage ==
    /\ mainPc = "dump"
    /\ mainPc' = "dumped"
    /\ cvOut' = CoverageArtifacts(cvInfo, flagNoDumpCall, flagSemantic)
    /\ UNCHANGED <<flagVars, proc, pos, posMu, shutdown, gate, wk, coverRecord,
                   execFailCnt, report, histVars, cvInfo, ldFiles, ldOut, toolVars>>

InitCover ==
    /\ flagSemantic \in BOOLEAN
    /\ flagNoDumpCall \in BOOLEAN
    /\ flagProgDir = FALSE
    /\ flagCoverFile = TRUE
    /\ flagRepeat = 1
    /\ flagMaxRetry = MaxRetry
    /\ progs = [c \in Pools |-> <<>>]
    /\ progFns = [c \in Pools |-> <<>>]
    /\ mainPc = "dump"
    /\ PoolsInit
    /\ coverRecord = <<>>
    /\ execFailCnt = 0
    /\ \E n \in 0 .. MaxCalls : \E calls \in [1 .. n -> Covers], extra \in ExtraCovers :
         cvInfo = [Calls |-> calls, Extra |-> extra]
    /\ cvOut = NoVal
    /\ ldFiles = NoVal
    /\ ldOut = NoVal
    /\ ToolsIdle

SpecCover == InitCover /\ [][DumpCoverage]_vars

\* ------------------------------------------ saveToFile on its own (SpecReport)
RecordKey(i) == <<CoverPrefix, <<"file", i>>>>
RecordValues == {<<c0, c1, n>> : c0 \in 0 .. MaxCov, c1 \in 0 .. MaxCov, n \in 1 .. MaxLen}
\* the record with the keys RecordKey(1) .. RecordKey(n) and the values v
RecordOf(n, v) == [k \in {RecordKey(i) : i \in 1 .. n} |-> v[k[2][2]]]

\* the two worked cases of the design document, section 8
ExampleClassify ==
    (RecordKey(1) :> <<10, 7, 3>>) @@ (RecordKey(2) :> <<5, 5, 1>>)
ExampleRates ==
    (RecordKey(1) :> <<10, 7, 3>>) @@ (RecordKey(2) :> <<2, 1, 1>>) @@
    (RecordKey(3) :> <<5, 5, 2>>) @@ (RecordKey(4) :> <<1, 3, 4>>)

InitReport ==
    /\ flagSemantic = TRUE
    /\ flagCoverFile = TRUE
    /\ flagProgDir \in BOOLEAN
    /\ flagNoDumpCall = FALSE
    /\ flagRepeat = 1
    /\ flagMaxRetry = MaxRetry
    /\ progs = [c \in Pools |-> <<>>]
    /\ progFns = [c \in Pools |-> <<>>]
    /\ mainPc = "save"
    /\ PoolsInit
    /\ \/ \E n \in 0 .. MaxEntries : \E v \in [1 .. n -> RecordValues] :
              coverRecord = RecordOf(n, v)
       \/ coverRecord \in {ExampleClassify, ExampleRates}
    /\ execFailCnt = 0
    /\ cvInfo = NoVal
    /\ cvOut = NoVal
    /\ ldFiles = NoVal
    /\ ldOut = NoVal
    /\ ToolsIdle

SpecReport == InitReport /\ [][MainSave]_vars

\* ------------------------------------ syz-repair: repairProgram (SpecRepair)
\* syz-execprog is not running: the state the other tools' specifications give it
ExecprogIdle ==
    /\ flagSemantic = FALSE
    /\ flagProgDir = FALSE
    /\ flagCoverFile = FALSE
    /\ flagRepeat = 1
    /\ flagMaxRetry = MaxRetry
    /\ flagNoDumpCall = FALSE
    /\ progs = [c \in Pools |-> <<>>]
    /\ progFns = [c \in Pools |-> <<>>]
    /\ mainPc = "off"
    /\ PoolsInit
    /\ coverRecord = <<>>
    /\ execFailCnt = 0
    /\ cvInfo = NoVal
    /\ cvOut = NoVal
    /\ ldFiles = NoVal
    /\ ldOut = NoVal

execVars == <<flagVars, mainPc, proc, pos, posMu, shutdown, gate, wk, coverRecord,
              execFailCnt, report, histVars, cvVars>>

failRepairMax == 2
repairMax == 25

\* the error types the switch of repairProgram has a repair step for
RepairableErrors ==
    {"unknown syscall SYSCALL", "want A got B",
     "call SYSCALL: escaping filename FILENAME", "unexpected eof", "Out of MaxCalls"}
\* what classifyErrorType can return as errType
ErrorTypes == RepairableErrors \cup {"other"}

\* the test that ends the loop of repairProgram
RepairExhausted_LateCap(failRepairCnt, repairCnt) ==
    failRepairCnt >= failRepairMax \/ repairCnt >= repairMax + 1
RepairExhausted(failRepairCnt, repairCnt) ==
    failRepairCnt >= failRepairMax \/ repairCnt >= repairMax

\* top of the loop: one validation round. The validator accepts the current
\* lines (err is "nil") or answers with an error of any type.
RepairCheck ==
    /\ repairSt.pc = "loop"
    /\ \E err \in ErrorTypes \cup {"nil"} :
         repairSt' = [repairSt EXCEPT
                        !.repairCnt = @ + 1,
                        !.err = err,
                        !.pc = IF err = "nil" THEN "returned" ELSE "switch"]
    /\ UNCHANGED <<execVars, parenSt, validSt, parseSt>>

\* the switch and the test after it: a repair step for a repairable type (it
\* rewrites the lines, or panics on an index out of range), a count for any
\* other type, then the loop ends or goes on
RepairStep ==
    /\ repairSt.pc = "switch"
    /\ \/ /\ repairSt.err \in RepairableErrors
          /\ \E panics \in BOOLEAN :
               repairSt' = [repairSt EXCEPT
                   !.steps = @ + 1,
                   !.pc = IF panics THEN "panic"
                          ELSE IF RepairExhausted(repairSt.failRepairCnt,
                                                  repairSt.repairCnt)
                               THEN "returned" ELSE "loop"]
       \/ /\ repairSt.err \notin RepairableErrors
          /\ repairSt' = [repairSt EXCEPT
                   !.failRepairCnt = @ + 1,
                   !.pc = IF RepairExhausted(repairSt.failRepairCnt + 1,
                                             repairSt.repairCnt)
                          THEN "returned" ELSE "loop"]
    /\ UNCHANGED <<execVars, parenSt, validSt, parseSt>>

InitRepair ==
    /\ ExecprogIdle
    /\ repairSt = [pc |-> "loop", repairCnt |-> 0, failRepairCnt |-> 0,
                   err |-> NoVal, steps |-> 0]
    /\ parenSt = NoVal
    /\ validSt = NoVal
    /\ parseSt = NoVal

NextRepair ==
    \/ RepairCheck
    \/ RepairStep

\* the call of repairProgram runs on: a round that can be taken is taken
SpecRepair == InitRepair /\ [][NextRepair]_vars /\ WF_vars(NextRepair)

\* ------------------- syz-repair: fixUnbalancedParentheses (SpecParen)
\* the characters of a line: the four brackets and one other character
Chars == {"(", ")", "{", "}", "a"}

isMatchingPair(left, right) ==
    (left = "(" /\ right = ")") \/ (left = "{" /\ right = "}")
\* the Go functions return the rune 0 for any other argument
getMatchingLeft(right) ==
    IF right = ")" THEN "(" ELSE IF right = "}" THEN "{" ELSE "\\0"
getMatchingRight(left) ==
    IF left = "(" THEN ")" ELSE IF left = "{" THEN "}" ELSE "\\0"

\* the closing loop: the rights of the stack from its top to its bottom
RECURSIVE CloseStack(_)
CloseStack(stack) ==
    IF stack = <<>> THEN <<>>
    ELSE <<getMatchingRight(stack[Len(stack)])>> \o CloseStack(SubSeq(stack, 1, Len(stack) - 1))

\* the scan of the input from character i on, with the stack and the result so far
RECURSIVE FixFrom(_, _, _, _)
FixFrom(input, i, stack, result) ==
    IF i > Len(input) THEN result \o CloseStack(stack)
    ELSE LET char == input[i] IN
         IF char \in {"(", "{"}
         THEN FixFrom(input, i + 1, Append(stack, char), Append(result, char))
         ELSE IF char \in {")", "}"}
         THEN IF Len(stack) > 0 /\ isMatchingPair(stack[Len(stack)], char)
              THEN FixFrom(input, i + 1, SubSeq(stack, 1, Len(stack) - 1),
                           Append(result, char))
              ELSE LET left == getMatchingLeft(char) IN
                   FixFrom(input, i + 1, Append(stack, left),
                           Append(Append(result, left), char))
         ELSE FixFrom(input, i + 1, stack, Append(result, char))

fixUnbalancedParentheses(input) == FixFrom(input, 1, <<>>, <<>>)

\* repairEOF, line 301: the line of the error is replaced by its fixed form
FixLine ==
    /\ parenSt.pc = "fix"
    /\ parenSt' = [parenSt EXCEPT !.pc = "fixed",
                                  !.result = fixUnbalancedParentheses(parenSt.input)]
    /\ UNCHANGED <<execVars, repairSt, validSt, parseSt>>

InitParen ==
    /\ ExecprogIdle
    /\ repairSt = NoVal
    /\ \E input \in SeqsUpTo(Chars, MaxLine) :
         parenSt = [pc |-> "fix", input |-> input, result |-> <<>>]
    /\ validSt = NoVal
    /\ parseSt = NoVal

SpecParen == InitParen /\ [][FixLine]_vars

\* ------------------------------ syz-validator: checkPrograms (SpecValidator)
\* what ReadFile gives for an entry of the directory: an error, no data, data
\* that does not deserialize, or a program of some number of calls
DirEntries ==
    {[kind |-> k, calls |-> 0] : k \in {"unreadable", "blank", "garbage"}}
    \cup {[kind |-> "program", calls |-> n] : n \in 1 .. (progMaxCalls + 1)}

\* the out_dir argument: not given, an existing directory, or a missing one that
\* MkdirAll creates or fails to create
OutDirs == {"", "exists", "creatable", "uncreatable"}

checkProgram(data) ==
    IF data.kind = "blank" THEN TRUE
    ELSE IF data.kind = "garbage" THEN TRUE
    ELSE IF data.calls > progMaxCalls THEN TRUE
    ELSE FALSE

\* lines 119-137: ReadDir, then the output directory is created when missing
CheckProgramsStart ==
    /\ validSt.pc = "start"
    /\ validSt' =
         IF ~validSt.dirOk THEN [validSt EXCEPT !.pc = "fatal"]
         ELSE IF validSt.outDir = "uncreatable"
         THEN [validSt EXCEPT !.pc = "returned", !.ret = validSt.badCnt]
         ELSE [validSt EXCEPT !.pc = "loop", !.badCnt = 0]
    /\ UNCHANGED <<execVars, repairSt, parenSt, parseSt>>

\* lines 139-154: one file of the directory. The result of WriteFile is
\* discarded by the code; the write is taken to succeed.
CheckProgramsFile ==
    /\ validSt.pc = "loop"
    /\ validSt.i < Len(validSt.files)
    /\ LET data == validSt.files[validSt.i + 1] IN
       validSt' =
         IF data.kind = "unreadable" THEN [validSt EXCEPT !.pc = "fatal"]
         ELSE IF checkProgram(data)
         THEN [validSt EXCEPT !.i = @ + 1, !.badCnt = @ + 1]
         ELSE IF validSt.outDir # ""
         THEN [validSt EXCEPT !.i = @ + 1, !.written = Append(@, validSt.i + 1)]
         ELSE [validSt EXCEPT !.i = @ + 1]
    /\ UNCHANGED <<execVars, repairSt, parenSt, parseSt>>

\* lines 155-156: the summary line and the return
CheckProgramsEnd ==
    /\ validSt.pc = "loop"
    /\ validSt.i = Len(validSt.files)
    /\ validSt' = [validSt EXCEPT !.pc = "returned", !.ret = validSt.badCnt,
                                  !.summary = TRUE]
    /\ UNCHANGED <<execVars, repairSt, parenSt, parseSt>>

InitValidator ==
    /\ ExecprogIdle
    /\ repairSt = NoVal
    /\ parenSt = NoVal
    /\ \E files \in SeqsUpTo(DirEntries, MaxDirFiles), outDir \in OutDirs,
          dirOk \in BOOLEAN :
         validSt = [pc |-> "start", files |-> files, outDir |-> outDir,
                    dirOk |-> dirOk, i |-> 0, badCnt |-> 0, written |-> <<>>,
                    ret |-> 0, summary |-> FALSE]
    /\ parseSt = NoVal

NextValidator ==
    \/ CheckProgramsStart
    \/ CheckProgramsFile
    \/ CheckProgramsEnd

SpecValidator == InitValidator /\ [][NextValidator]_vars

\* ------------------------------------------ syz-db: parse (SpecParse)
\* keys of the corpus, as the pieces a file name is made of
Keys == {<<"a">>, <<"a", "-1">>, <<"b">>}
SeqSuffix == <<"-1", "-2">>
\* lines 184-188: fmt.Sprintf("-%v", rec.Seq) is appended for a non-zero Seq
SeedName(key, seq) == IF seq # 0 THEN Append(key, SeqSuffix[seq]) ELSE key

\* rec.Val: progLenThreshold bytes or more, or shorter; it deserializes into
\* its calls or fails to
Vals ==
    {[long |-> TRUE, ok |-> TRUE, calls |-> <<"open">>],
     [long |-> FALSE, ok |-> FALSE, calls |-> <<>>],
     [long |-> FALSE, ok |-> TRUE, calls |-> <<"open">>],
     [long |-> FALSE, ok |-> TRUE, calls |-> <<"open", "read">>]}
Records == [seq : 0 .. MaxSeq, val : Vals]
Corpora == UNION {[ks -> Records] : ks \in SUBSET Keys}

\* reverse_index.json before the first run: missing, not decodable, or the
\* encoding of a map
IndexFiles ==
    {[exists |-> FALSE, valid |-> FALSE, map |-> <<>>],
     [exists |-> TRUE, valid |-> FALSE, map |-> <<>>],
     [exists |-> TRUE, valid |-> TRUE, map |-> <<>>],
     [exists |-> TRUE, valid |-> TRUE, map |-> ("open" :> << <<"b">> >>)]}

\* a missing file and a file json cannot decode give the map made at line 227
loadReverseIndex(file) == IF file.exists /\ file.valid THEN file.map ELSE <<>>
saveReverseIndex(reverseIndex) == [exists |-> TRUE, valid |-> TRUE, map |-> reverseIndex]

\* line 190: the seed name is among the names read from the directory
SeedExists_Never(key, existSeedNames) == FALSE
SeedExists(key, existSeedNames) == key \in existSeedNames

\* lines 205-214: fname is appended to the list of every call of the program
RECURSIVE AddCalls(_, _, _)
AddCalls(reverseIndex, calls, fname) ==
    IF calls = <<>> THEN reverseIndex
    ELSE LET name == Head(calls)
             next == IF name \in DOMAIN reverseIndex
                     THEN [reverseIndex EXCEPT ![name] = Append(@, fname)]
                     ELSE (name :> <<fname>>) @@ reverseIndex
         IN AddCalls(next, Tail(calls), fname)

\* lines 149-181: the corpus is opened, the names of the directory are read and
\* the reverse index is loaded
ParseStart ==
    /\ parseSt.pc = "start"
    /\ parseSt' = [parseSt EXCEPT
                     !.pc = "range",
                     !.existSeedNames = parseSt.dir,
                     !.reverseIndex = loadReverseIndex(parseSt.indexFile),
                     !.todo = DOMAIN parseSt.records,
                     !.wrote = Append(@, 0),
                     !.added = Append(@, 0)]
    /\ UNCHANGED <<execVars, repairSt, parenSt, validSt>>

\* lines 183-216: one record of the corpus, in the order the map yields them
ParseRecord ==
    /\ parseSt.pc = "range"
    /\ \E k \in parseSt.todo : \E writeOk \in BOOLEAN :
         LET rec == parseSt.records[k]
             key == SeedName(k, rec.seq)
             run == Len(parseSt.wrote)
             rest == [parseSt EXCEPT !.todo = @ \ {k}]
         IN parseSt' =
              IF SeedExists(key, parseSt.existSeedNames) THEN rest
              ELSE IF ~writeOk THEN [parseSt EXCEPT !.pc = "fatal"]
              ELSE LET written == [rest EXCEPT !.dir = @ \cup {key},
                                               !.wrote[run] = @ + 1]
                   IN IF rec.val.long \/ ~rec.val.ok THEN written
                      ELSE [written EXCEPT
                              !.reverseIndex = AddCalls(@, rec.val.calls, key),
                              !.added[run] = @ + Len(rec.val.calls)]
    /\ UNCHANGED <<execVars, repairSt, parenSt, validSt>>

\* lines 217-222: the reverse index is saved
ParseSave ==
    /\ parseSt.pc = "range"
    /\ parseSt.todo = {}
    /\ \E saveOk \in BOOLEAN :
         parseSt' = IF saveOk
                    THEN [parseSt EXCEPT !.pc = "done",
                              !.indexFile = saveReverseIndex(parseSt.reverseIndex)]
                    ELSE [parseSt EXCEPT !.pc = "fatal"]
    /\ UNCHANGED <<execVars, repairSt, parenSt, validSt>>

\* parse is run again on the same corpus and directory
ParseAgain ==
    /\ parseSt.pc = "done"
    /\ Len(parseSt.wrote) < MaxRuns
    /\ parseSt' = [parseSt EXCEPT !.pc = "start", !.saved = Append(@, parseSt.indexFile)]
    /\ UNCHANGED <<execVars, repairSt, parenSt, validSt>>

InitParse ==
    /\ ExecprogIdle
    /\ repairSt = NoVal
    /\ parenSt = NoVal
    /\ validSt = NoVal
    /\ \E records \in Corpora, dir \in SUBSET {<<"a">>}, indexFile \in IndexFiles :
         parseSt = [pc |-> "start", records |-> records, dir |-> dir,
                    indexFile |-> indexFile, existSeedNames |-> {},
                    reverseIndex |-> <<>>, todo |-> {}, wrote |-> <<>>,
                    added |-> <<>>, saved |-> <<>>]

NextParse ==
    \/ ParseStart
    \/ ParseRecord
    \/ ParseSave
    \/ ParseAgain

SpecParse == InitParse /\ [][NextParse]_vars

\* ================================================================= claims
InDispatch == {"exec", "failcnt", "dump", "leave"}

\* workers of pool c between gate.Enter and gate.Leave
Outstanding(c) == Cardinality({p \in Pids : wk[c][p].pc \in InDispatch})

\* C1: the indices getProgramIndex has returned on one Context are pairwise
\* different and, after n completed calls, are exactly 0 .. n-1.
InvC1_CursorUnique ==
    \A c \in Pools :
        /\ \A i \in BagToSet(returned[c]) : CopiesIn(i, returned[c]) = 1
        /\ BagToSet(returned[c]) = 0 .. (BagCardinality(returned[c]) - 1)

\* two workers of one pool are inside a dispatch at once, each with its own index
WitC1_ConcurrentCalls ==
    \E c \in Pools : \E p \in Pids, q \in Pids :
        /\ p # q
        /\ wk[c][p].pc = "exec" /\ wk[c][q].pc = "exec"
        /\ wk[c][p].idx # wk[c][q].idx
        /\ BagCardinality(returned[c]) >= 3

\* C2: in semantic mode no worker of the reverse-order pool is started, and
\* none has taken an index or dispatched, unless every worker of the
\* original-order pool has returned.
InvC2_PhaseOrder ==
    (\/ \E p \in Pids : wk[1][p].pc # "idle"
     \/ returned[1] # EmptyBag
     \/ ran[1] # EmptyBag)
    => \A p \in Pids : wk[0][p].pc = "done"

\* a reverse-order worker dispatches after the original pool ended by shutdown
WitC2_ReverseAfterShutdown ==
    /\ shutdown[0]
    /\ \E p \in Pids : wk[1][p].pc = "exec"
    /\ \A p \in Pids : wk[0][p].pc = "done"

\* C3: the tickets of a pool's gate entered and not yet left are those of the
\* workers inside execute, and never exceed the capacity 2*P.
InvC3_GateBound ==
    \A c \in Pools :
        /\ gate[c] = Outstanding(c)
        /\ gate[c] <= 2 * Procs

\* every worker of a pool holds a ticket at once
WitC3_AllTicketsOut == \E c \in Pools : gate[c] = Procs

\* C4: a dispatch whose executor fails k <= maxRetry times and then succeeds
\* is neither skipped nor fatal, and ends in success after exactly k retries.
InvC4_RetryThenSuccess ==
    \A c \in Pools, p \in Pids :
        /\ wk[c][p].result \in {"skip", "fatal"} => wk[c][p].fails > flagMaxRetry
        /\ wk[c][p].result = "success" =>
               /\ wk[c][p].retries = wk[c][p].fails
               /\ wk[c][p].calls = wk[c][p].fails + 1

\* a dispatch succeeded after exactly maxRetry failures
WitC4_SuccessAtBudget ==
    \E c \in Pools, p \in Pids :
        /\ wk[c][p].result = "success"
        /\ flagMaxRetry >= 1
        /\ wk[c][p].fails = flagMaxRetry
        /\ wk[c][p].calls = flagMaxRetry + 1

\* C5: a dispatch whose executor fails k > maxRetry times (k = maxRetry+1
\* included) never reaches the success path, and the executor is retried at
\* most maxRetry times.
CexC5_NoSuccessBeyondBudget ==
    \A c \in Pools, p \in Pids :
        /\ wk[c][p].result = "success" => wk[c][p].fails <= flagMaxRetry
        /\ wk[c][p].retries <= flagMaxRetry

\* C6: when a dispatch exhausts its retry budget, without -progdir the process
\* aborts; with -progdir the dispatch is skipped, execFailCnt grows by exactly
\* one for it, and the same worker returns to the top of its loop.
CexC6_SkipCountsOne ==
    [][\A c \in Pools, p \in Pids :
          /\ (wk[c][p].pc = "exec" /\ wk'[c][p].result = "fatal") =>
                 (~flagProgDir /\ proc' = "fatal")
          /\ (wk[c][p].pc = "exec" /\ wk'[c][p].result = "skip") => flagProgDir
          /\ (wk[c][p].pc = "failcnt" /\ wk'[c][p].pc = "leave") =>
                 execFailCnt' = execFailCnt + 1
          /\ (wk[c][p].pc = "leave" /\ wk[c][p].result = "skip"
                /\ wk'[c][p].pc # "leave") => wk'[c][p].pc = "top"]_vars

\* C6, the part the code keeps: the mode decides between abort and skip, a
\* skip stores the value it loaded plus one, and the worker goes on.
InvC6_SkipOrAbort ==
    [][\A c \in Pools, p \in Pids :
          /\ (wk[c][p].pc = "exec" /\ wk'[c][p].result = "fatal") =>
                 (~flagProgDir /\ proc' = "fatal")
          /\ (wk[c][p].pc = "exec" /\ wk'[c][p].result = "skip") => flagProgDir
          /\ (wk[c][p].pc = "failcnt" /\ wk'[c][p].pc = "leave") =>
                 execFailCnt' = wk[c][p].tmp + 1
          /\ (wk[c][p].pc = "leave" /\ wk[c][p].result = "skip"
                /\ wk'[c][p].pc # "leave") => wk'[c][p].pc = "top"]_vars

\* C7: with N >= 1 programs and repeat R > 0, a pool that finished without a
\* shutdown signal has dispatched exactly N*R times, index i ran program
\* i mod N, and every program was dispatched exactly R times.
DispatchesOf(c, j) ==
    LET E == {e \in BagToSet(ran[c]) : e[2] = j} IN
    SumSeq([i \in 1 .. Len(progs[c]) * (flagRepeat + 1) + Procs |->
              IF <<i - 1, j>> \in E THEN CopiesIn(<<i - 1, j>>, ran[c]) ELSE 0])

InvC7_EachProgramRTimes ==
    \A c \in Pools :
        (PoolDone(c) /\ ~shutdown[c] /\ flagRepeat > 0 /\ Len(progs[c]) >= 1) =>
            /\ BagCardinality(ran[c]) = Len(progs[c]) * flagRepeat
            /\ \A e \in BagToSet(ran[c]) : e[2] = e[1] % Len(progs[c])
            /\ BagToSet(ran[c]) =
                   {<<i, i % Len(progs[c])>> : i \in 0 .. (Len(progs[c]) * flagRepeat - 1)}
            /\ \A j \in 0 .. (Len(progs[c]) - 1) : DispatchesOf(c, j) = flagRepeat

\* two programs, repeat 2: the pool finished after 4 dispatches
WitC7_TwoProgramsTwice ==
    /\ PoolDone(0) /\ ~shutdown[0]
    /\ flagRepeat = 2 /\ Len(progs[0]) = 2
    /\ BagCardinality(ran[0]) = 4
    /\ DispatchesOf(0, 0) = 2 /\ DispatchesOf(0, 1) = 2

\* dumpCoverage has run on cvInfo
Dumped == mainPc = "dumped"

\* the PCs of one Cover slice, and of all calls of a ProgInfo
PCsOf(cover) == {cover[i] : i \in 1 .. Len(cover)}
UnionOfCalls(info) == UNION {PCsOf(info.Calls[i]) : i \in 1 .. Len(info.Calls)}

\* C8: the ".total" file of a program has one line per distinct PC of the
\* union of its calls' PC sets.
InvC8_TotalIsUnion ==
    Dumped => Cardinality(cvOut.total) = Cardinality(UnionOfCalls(cvInfo))

\* two calls share a PC: the union is smaller than the sum of the call sets
WitC8_OverlappingCalls ==
    /\ Dumped
    /\ Len(cvInfo.Calls) = 2
    /\ PCsOf(cvInfo.Calls[1]) \cap PCsOf(cvInfo.Calls[2]) # {}
    /\ Cardinality(cvOut.total) = 2
    /\ Cardinality(PCsOf(cvInfo.Calls[1])) + Cardinality(PCsOf(cvInfo.Calls[2])) > 2

\* saveToFile has written the report of coverRecord
Saved == mainPc = "exit" /\ proc = "exited" /\ flagSemantic /\ flagCoverFile

Wins == {k \in DOMAIN coverRecord : coverRecord[k][1] > coverRecord[k][2]}
Equals == {k \in DOMAIN coverRecord : coverRecord[k][1] = coverRecord[k][2]}
Loses == {k \in DOMAIN coverRecord : coverRecord[k][1] < coverRecord[k][2]}
OneLine == {k \in DOMAIN coverRecord : coverRecord[k][3] = 1}

\* C9: saveToFile counts every entry once, as Win, Equal or Lose by comparing
\* covOriginal with covReverse, and in the matching one-line counter exactly
\* when its length is 1.
InvC9_Classification ==
    Saved =>
        /\ report.cnt.totalProgCnt = Cardinality(DOMAIN coverRecord)
        /\ report.cnt.totalWinCnt = Cardinality(Wins)
        /\ report.cnt.totalEqualCnt = Cardinality(Equals)
        /\ report.cnt.totalLoseCnt = Cardinality(Loses)
        /\ report.cnt.oneLineProgCnt = Cardinality(OneLine)
        /\ report.cnt.oneLineWinCnt = Cardinality(Wins \cap OneLine)
        /\ report.cnt.oneLineEqualCnt = Cardinality(Equals \cap OneLine)
        /\ report.cnt.oneLineLoseCnt = Cardinality(Loses \cap OneLine)

\* (10,7,3) is counted as a win, (5,5,1) as an equal and a one-line equal
WitC9_WorkedCase ==
    /\ Saved
    /\ coverRecord = ExampleClassify
    /\ report.cnt.totalWinCnt = 1 /\ report.cnt.oneLineWinCnt = 0
    /\ report.cnt.totalEqualCnt = 1 /\ report.cnt.oneLineEqualCnt = 1
    /\ report.cnt.totalLoseCnt = 0

\* r is num/den*100 in hundredths, rounded to the nearest hundredth
IsRate(r, num, den) ==
    den > 0 => /\ 2 * (r * den - num * 10000) <= den
               /\ 2 * (num * 10000 - r * den) <= den

\* C10: OCER = wins/total*100, ECER = (wins-oneLineWins)/(total-oneLineWins)*100
\* and CER = (wins-oneLineWins)/total*100, each to two decimals; the four
\* entries {Win(3), Win(1), Equal(2), Lose(4)} give 50.00, 33.33 and 25.00.
InvC10_Rates ==
    Saved =>
        LET total == Cardinality(DOMAIN coverRecord)
            wins == Cardinality(Wins)
            oneLineWins == Cardinality(Wins \cap OneLine)
        IN /\ IsRate(report.OCER, wins, total)
           /\ IsRate(report.ECER, wins - oneLineWins, total - oneLineWins)
           /\ IsRate(report.CER, wins - oneLineWins, total)
           /\ coverRecord = ExampleRates =>
                  /\ total = 4 /\ wins = 2 /\ oneLineWins = 1
                  /\ report.OCER = 5000 /\ report.ECER = 3333 /\ report.CER = 2500

\* the report of the four worked entries
WitC10_WorkedRates ==
    /\ Saved
    /\ coverRecord = ExampleRates
    /\ report.cnt.totalProgCnt = 4 /\ report.cnt.totalWinCnt = 2
    /\ report.cnt.oneLineWinCnt = 1
    /\ report.ECER = 3333

\* the key under which dispatch idx of pool c records its coverage
KeyOf(c, idx) == TrimSuffixRev(covFileName(c, idx))

\* C11: once an original-mode record has created the entry of a key, every
\* later original-mode record for that key, one issued concurrently by another
\* worker of the pool included, leaves the entry's covOriginal and length at
\* the values written first.
CexC11_FirstOriginalKept ==
    [][mainPc = "wait0" =>
         \A k \in DOMAIN coverRecord :
             /\ k \in DOMAIN coverRecord'
             /\ coverRecord'[k][1] = coverRecord[k][1]
             /\ coverRecord'[k][3] = coverRecord[k][3]]_vars

\* C11, the part the code keeps: an original-mode record that found the entry
\* when it looked it up leaves the record as it is.
InvC11_SeenEntryKept ==
    [][\A p \in Pids :
          (wk[0][p].pc = "dump" /\ wk[0][p].ok /\ wk'[0][p].pc = "leave") =>
              coverRecord' = coverRecord]_vars

\* C12: for every key, the "original" field of its entry is written at most
\* once in a run and its "reverse" field at most once.
CexC12_OneWritePerField ==
    \A e \in BagToSet(recWrites) : CopiesIn(e, recWrites) <= 1

\* C13: a reverse-mode record for a key without entry leaves coverRecord
\* unchanged, creates no entry, and the worker goes on with the process alive.
InvC13_OrphanReverse ==
    [][\A p \in Pids :
          (wk[1][p].pc = "dump" /\ ~wk[1][p].ok /\ wk'[1][p].pc = "leave") =>
              /\ coverRecord' = coverRecord
              /\ KeyOf(1, wk[1][p].idx) \notin DOMAIN coverRecord'
              /\ recWrites' = recWrites
              /\ proc' = "running"]_vars

\* a reverse-order worker has recorded for a key without entry and goes on
WitC13_OrphanSkipped ==
    \E p \in Pids :
        /\ wk[1][p].pc = "leave" /\ wk[1][p].hasInfo /\ ~wk[1][p].ok
        /\ flagCoverFile
        /\ KeyOf(1, wk[1][p].idx) \notin DOMAIN coverRecord
        /\ proc = "running"

\* C14: the permanent-failure counter written to the report equals the
\* number of dispatches skipped after exhausting their retries.
CexC14_FailCountExact ==
    Saved => report.execFails = skipped

\* C15: an executor call returning ErrExecBufferTooSmall is a success on any
\* attempt: no retry, no failure count, no abort, and its info, when present,
\* goes to dumpCoverage when -coverfile is set.
InvC15_BufferTooSmallIsSuccess ==
    [][\A c \in Pools, p \in Pids :
          (wk[c][p].pc = "exec" /\ wk'[c][p] # wk[c][p]
             /\ wk'[c][p].err = "ErrExecBufferTooSmall") =>
              /\ wk'[c][p].result = "success"
              /\ wk'[c][p].try = wk[c][p].try
              /\ wk'[c][p].retries = wk[c][p].retries
              /\ wk'[c][p].fails = wk[c][p].fails
              /\ wk'[c][p].pc \in {"dump", "leave"}
              /\ (wk'[c][p].pc = "dump") = (wk'[c][p].hasInfo /\ flagCoverFile)
              /\ execFailCnt' = execFailCnt
              /\ skipped' = skipped
              /\ proc' = "running"]_vars

\* the sentinel came back on a retry, with info, and the info is being dumped
WitC15_SentinelOnRetry ==
    \E c \in Pools, p \in Pids :
        /\ wk[c][p].err = "ErrExecBufferTooSmall"
        /\ wk[c][p].result = "success"
        /\ wk[c][p].retries >= 1
        /\ wk[c][p].hasInfo /\ wk[c][p].pc = "dump"

\* loadPrograms has run on ldFiles
Loaded == mainPc = "loaded"

\* the programs a source yields when it is read
Yield(fl) == IF fl.kind = "unreadable" THEN 0 ELSE Len(SelectSeq(fl.entries, LAMBDA e : e))

\* C16: loadPrograms skips the corpus entries that fail to deserialize, reads
\* a source that is no corpus as a log, and aborts only if no source at all is
\* readable: with one readable source an unreadable one does not fail the run.
CexC16_AbortOnlyIfNoneReadable ==
    Loaded =>
        /\ ldOut.fatal =>
               /\ Len(ldFiles) >= 1
               /\ \A f \in 1 .. Len(ldFiles) : ldFiles[f].kind = "unreadable"
        /\ ~ldOut.fatal =>
               Len(ldOut.progs) = SumSeq([f \in 1 .. Len(ldFiles) |-> Yield(ldFiles[f])])

\* C16, the part the code keeps: loading aborts exactly when some source is
\* unreadable, and otherwise returns the entries that deserialize, in order.
InvC16_AbortOnFirstUnreadable ==
    Loaded =>
        /\ ldOut.fatal = (\E f \in 1 .. Len(ldFiles) : ldFiles[f].kind = "unreadable")
        /\ ~ldOut.fatal =>
               /\ Len(ldOut.progs) =
                      SumSeq([f \in 1 .. Len(ldFiles) |-> Yield(ldFiles[f])])
               /\ \A i \in 1 .. (Len(ldOut.progs) - 1) : ldOut.progs[i] <= ldOut.progs[i + 1]

\* C17: a worker that sees the shutdown signal at the top of its loop returns
\* without reading the cursor or starting a dispatch, and a started dispatch
\* is never cut short: it ends in success or skip, gives its ticket back and
\* only then can its worker return.
InvC17_CooperativeShutdown ==
    [][\A c \in Pools, p \in Pids :
          /\ (wk[c][p].pc = "top" /\ shutdown[c] /\ wk'[c][p] # wk[c][p]) =>
                 /\ wk'[c][p].pc = "done"
                 /\ pos' = pos /\ returned' = returned /\ ran' = ran /\ gate' = gate
          /\ (wk[c][p].pc \in InDispatch /\ wk'[c][p].pc \notin InDispatch) =>
                 /\ wk[c][p].pc = "leave"
                 /\ wk[c][p].result \in {"success", "skip"}
                 /\ wk'[c][p].pc = "top"
                 /\ gate'[c] = gate[c] - 1
          /\ (wk'[c][p].pc = "done" /\ wk[c][p].pc # "done") =>
                 /\ wk[c][p].pc \in {"top", "getidx2"}
                 /\ ~wk[c][p].ticket]_vars

\* after the signal one worker has returned at the top of its loop while the
\* dispatch of another, started before, has run to its successful end
WitC17_InFlightCompletes ==
    \E c \in Pools : \E p \in Pids, q \in Pids :
        /\ shutdown[c]
        /\ flagRepeat = 0
        /\ wk[c][q].pc = "done"
        /\ wk[c][p].pc = "leave" /\ wk[c][p].result = "success"
        /\ wk[c][p].retries >= 1

\* C18: a reverse-mode record for a key whose entry exists changes only
\* covReverse: covOriginal and length are the same after the write as before.
CexC18_ReverseOnlyCovReverse ==
    [][mainPc = "wait1" =>
         \A k \in DOMAIN coverRecord :
             /\ k \in DOMAIN coverRecord'
             /\ coverRecord'[k][1] = coverRecord[k][1]
             /\ coverRecord'[k][3] = coverRecord[k][3]]_vars

\* C18, the part the code keeps: covOriginal is never changed by the reverse
\* pool, and the length written is the call count of the reverse-order run.
InvC18_CovOriginalKept ==
    [][mainPc = "wait1" =>
         /\ \A k \in DOMAIN coverRecord :
                k \in DOMAIN coverRecord' /\ coverRecord'[k][1] = coverRecord[k][1]
         /\ \A p \in Pids :
                (wk[1][p].pc = "dump" /\ wk[1][p].ok /\ wk'[1][p].pc = "leave") =>
                    /\ coverRecord'[KeyOf(1, wk[1][p].idx)][2] = wk[1][p].covNum
                    /\ coverRecord'[KeyOf(1, wk[1][p].idx)][3] = wk[1][p].progLength]_vars

\* C19: saveToFile reads coverRecord only when every worker of both pools
\* has returned, and coverRecord is not written at or after that read.
InvC19_ReportAfterPools ==
    [][/\ mainPc = "save" =>
              \A p \in Pids : /\ wk[0][p].pc = "done"
                               /\ flagSemantic => wk[1][p].pc = "done"
       /\ mainPc \in {"save", "exit"} =>
              /\ coverRecord' = coverRecord
              /\ recWrites' = recWrites
              /\ wk' = wk]_vars

\* the report was written from a record both pools have written to
WitC19_ReportOfBothPools ==
    /\ Saved
    /\ \E k \in DOMAIN coverRecord :
           /\ CopiesIn(<<k, 0>>, recWrites) = 1
           /\ CopiesIn(<<k, 1>>, recWrites) = 1
           /\ <<k, coverRecord[k][1], coverRecord[k][2], coverRecord[k][3]>> \in report.rows
    /\ \A c \in Pools, p \in Pids : wk[c][p].pc = "done"

\* the workers of pool c holding a ticket
Holders(c) == {p \in Pids : wk[c][p].ticket}

\* C20: a worker holds one ticket from the start of a dispatch to its end,
\* every executor call and backoff of the dispatch included, and none between
\* dispatches; when a pool has finished no ticket is outstanding.
InvC20_TicketPerDispatch ==
    \A c \in Pools :
        /\ \A p \in Pids :
               /\ wk[c][p].ticket = (wk[c][p].pc \in InDispatch)
               /\ (wk[c][p].calls > 0 \/ wk[c][p].retries > 0
                      \/ wk[c][p].result # NoVal) => wk[c][p].ticket
        /\ gate[c] = Cardinality(Holders(c))
        /\ PoolDone(c) => gate[c] = 0

\* a pool has finished after a skipped and a successful dispatch, no ticket out
WitC20_AllReleased ==
    \E c \in Pools :
        /\ PoolDone(c) /\ gate[c] = 0
        /\ skipped >= 1
        /\ BagCardinality(ran[c]) > skipped

\* pool c has been started by main
Started(c) == \E p \in Pids : wk[c][p].pc # "idle"

\* C21: with a repeat limit R > 0 and N >= 1 programs every started pool
\* eventually finishes, all its workers returned or the process aborted, also
\* when every execution fails permanently; with R = 0 a worker returns only
\* after the shutdown signal.
InvC21_PoolsFinish ==
    /\ \A c \in Pools :
           [](Started(c) /\ flagRepeat > 0 /\ Len(progs[c]) >= 1
                => <>(PoolDone(c) \/ ~Live))
    /\ [](\A c \in Pools, p \in Pids :
             (flagRepeat = 0 /\ wk[c][p].pc = "done") => shutdown[c])

\* a pool of a -progdir run has finished without signal after a skip
WitC21_FinishedAfterSkip ==
    \E c \in Pools :
        /\ PoolDone(c) /\ ~shutdown[c]
        /\ flagRepeat > 0 /\ Len(progs[c]) >= 1
        /\ flagProgDir /\ skipped >= 1

\* C22: after the shutdown signal of a pool every worker of the pool
\* eventually returns, and at most one dispatch per worker begins after the
\* signal.
InvC22_StopsAfterSignal ==
    /\ \A c \in Pools :
           [](shutdown[c] /\ Len(progs[c]) >= 1
                => <>(PoolDone(c) \/ ~Live \/ pos[c] >= MaxPos))
    /\ [](\A c \in Pools, p \in Pids : lateRuns[c][p] <= 1)

\* every worker of a signalled pool has returned, one after a late dispatch
WitC22_ReturnedAfterLateRun ==
    \E c \in Pools :
        /\ shutdown[c] /\ PoolDone(c)
        /\ pos[c] < MaxPos
        /\ \E p \in Pids : lateRuns[c][p] = 1

\* C23: cancellation is pool-scoped: the signal of one pool closes only that
\* pool's channel, and in dual mode the reverse-order pool is built with an
\* open channel of its own and its workers are started, also after the
\* original-order pool was signalled.
InvC23_PoolScoped ==
    [][/\ \A c \in Pools :
            (shutdown'[c] /\ ~shutdown[c]) =>
                /\ \A d \in Pools \ {c} : shutdown'[d] = shutdown[d]
                /\ wk' = wk
       /\ (mainPc = "wait0" /\ mainPc' = "wait1") =>
              /\ ~shutdown'[1]
              /\ shutdown'[0] = shutdown[0]
              /\ \A p \in Pids : wk'[1][p].pc = "top"
       /\ \A p \in Pids :
              (wk[1][p].pc = "top" /\ ~shutdown[1] /\ wk'[1][p] # wk[1][p]) =>
                  wk'[1][p].pc = "getidx"]_vars

\* the original pool was signalled, the reverse pool was not and has
\* completed a dispatch
WitC23_ReversePoolRuns ==
    /\ shutdown[0] /\ ~shutdown[1]
    /\ lateRuns[1] = [p \in Pids |-> 0]
    /\ BagCardinality(ran[1]) >= 1
    /\ \E p \in Pids : wk[1][p].pc = "leave" /\ wk[1][p].result = "success"

\* the name under which dispatch idx of pool c writes its artifacts, and the
\* name of the source the program of that dispatch was loaded from
NameUsed(c, idx) == progFns[c][(idx % Len(progFns[c])) + 1]
NameOfSource(c, idx) == progFns[c][progs[c][(idx % Len(progs[c])) + 1]]

\* C24: the program list and the name list of a pool are parallel: they have
\* the same length, and the name used for dispatch i is the name of the source
\* its program was loaded from.
CexC24_ParallelLists ==
    \A c \in Pools :
        Started(c) =>
            /\ Len(progs[c]) = Len(progFns[c])
            /\ \A p \in Pids :
                   wk[c][p].pc \in InDispatch =>
                       NameUsed(c, wk[c][p].idx) = NameOfSource(c, wk[c][p].idx)

\* C24, the part the code keeps: the lists are parallel when every source
\* yields exactly one program.
InvC24_OneProgramPerSource ==
    \A c \in Pools :
        (Started(c) /\ progs[c] = [f \in 1 .. Len(progFns[c]) |-> f]) =>
            \A p \in Pids :
                wk[c][p].pc \in InDispatch =>
                    NameUsed(c, wk[c][p].idx) = NameOfSource(c, wk[c][p].idx)

\* the corpus records of the sources that fail to deserialize
RECURSIVE Malformed(_)
Malformed(files) ==
    IF files = <<>> THEN 0
    ELSE Malformed(Tail(files)) +
         (IF Head(files).kind = "corpus"
          THEN Len(SelectSeq(Head(files).entries, LAMBDA e : ~e)) ELSE 0)

\* the lines loadPrograms logged besides its closing "parsed %v programs"
SkipLines(logs) == SelectSeq(logs, LAMBDA l : l[1] # "parsed %v programs")

\* C25: every recoverable error leaves a log line: each malformed corpus
\* entry skipped by loadPrograms is counted and logged.
CexC25_SkippedEntriesLogged ==
    (Loaded /\ ~ldOut.fatal) => Len(SkipLines(ldOut.logs)) >= Malformed(ldFiles)

\* C26: a dispatch that ends in a skip writes neither the coverage record nor
\* a coverage artifact; coverRecord is only written by a dispatch that
\* succeeded with info present, so an entry exists after the original pool
\* only for a key such a dispatch of that pool recorded.
InvC26_SkipWritesNothing ==
    [][/\ \A c \in Pools, p \in Pids :
            (wk[c][p].result = "skip" /\ wk'[c][p] # wk[c][p]) =>
                /\ coverRecord' = coverRecord
                /\ recWrites' = recWrites
                /\ wk'[c][p].pc \in {"leave", "top"}
       /\ coverRecord' # coverRecord =>
              \E c \in Pools, p \in Pids :
                  /\ wk[c][p].pc = "dump"
                  /\ wk[c][p].result = "success" /\ wk[c][p].hasInfo
       /\ mainPc = "wait0" =>
              \A k \in DOMAIN coverRecord' : CopiesIn(<<k, 0>>, recWrites') >= 1]_vars

\* the original pool of a -progdir run with -coverfile has finished with a
\* skipped dispatch and an empty record
WitC26_SkippedNoEntry ==
    /\ PoolDone(0) /\ flagProgDir /\ flagCoverFile
    /\ skipped >= 1
    /\ BagCardinality(ran[0]) = skipped
    /\ coverRecord = <<>>

\* C27: the coverage count handed to the record is the number of PCs of the
\* ".total" set, the recorded length is the number of calls of the run info,
\* and the PCs of the extra call are counted in neither and are written to the
\* ".extra" artifact only.
InvC27_CountLengthExtra ==
    Dumped =>
        /\ cvOut.covNum = Cardinality(cvOut.total)
        /\ cvOut.covNum = Cardinality(UnionOfCalls(cvInfo))
        /\ cvOut.total = {PCString(pc) : pc \in UnionOfCalls(cvInfo)}
        /\ cvOut.progLength = Len(cvInfo.Calls)
        /\ cvOut.extra = dumpCallCoverage(cvInfo.Extra)
        /\ \A pc \in PCsOf(cvInfo.Extra) \ UnionOfCalls(cvInfo) :
               PCString(pc) \notin cvOut.total

\* the extra call covers a PC no call of the program covers
WitC27_ExtraOnlyPC ==
    /\ Dumped
    /\ Len(cvInfo.Calls) = 2
    /\ PCsOf(cvInfo.Extra) \ UnionOfCalls(cvInfo) # {}
    /\ cvOut.covNum = 1 /\ cvOut.progLength = 2
    /\ Len(cvOut.extra) = 1

\* C28: the report has one data row per entry of coverRecord, and its counts
\* agree with the rows: Total = rows = Win + Equal + Lose, one-line progs =
\* one-line Win + Equal + Lose, each one-line count at most its total count.
InvC28_ReportConsistent ==
    Saved =>
        LET cnt == report.cnt IN
        /\ Cardinality(report.rows) = Cardinality(DOMAIN coverRecord)
        /\ \A k \in DOMAIN coverRecord :
               <<k, coverRecord[k][1], coverRecord[k][2], coverRecord[k][3]>> \in report.rows
        /\ cnt.totalProgCnt = Cardinality(report.rows)
        /\ cnt.totalProgCnt = cnt.totalWinCnt + cnt.totalEqualCnt + cnt.totalLoseCnt
        /\ cnt.oneLineProgCnt =
               cnt.oneLineWinCnt + cnt.oneLineEqualCnt + cnt.oneLineLoseCnt
        /\ cnt.oneLineWinCnt <= cnt.totalWinCnt
        /\ cnt.oneLineEqualCnt <= cnt.totalEqualCnt
        /\ cnt.oneLineLoseCnt <= cnt.totalLoseCnt
        /\ cnt.oneLineProgCnt <= cnt.totalProgCnt

\* a report of three entries, one of each kind, one of them of one line
WitC28_ThreeRows ==
    /\ Saved
    /\ Cardinality(report.rows) = 3
    /\ report.cnt.totalWinCnt = 1 /\ report.cnt.totalEqualCnt = 1
    /\ report.cnt.totalLoseCnt = 1
    /\ report.cnt.oneLineProgCnt = 1

\* (main returns before the pools, and writes no report, when nothing was loaded)
\* C29: whenever the report is computed both rate denominators are non-zero:
\* total > 0 and total - oneLineWins > 0.
CexC29_DenominatorsNonZero ==
    (Saved /\ Started(0)) =>
        /\ report.cnt.totalProgCnt > 0
        /\ report.cnt.totalProgCnt - report.cnt.oneLineWinCnt > 0

\* C30: the workers of a pool are started only over a non-empty program
\* list, so the modulo by the program count is never taken with divisor zero.
CexC30_NonEmptyLists ==
    /\ \A c \in Pools : Started(c) => Len(progs[c]) > 0
    /\ proc # "panic"

\* C31: in dual mode every entry classified in the report has received a
\* reverse-mode write: none is classified with the covReverse 0 it was
\* created with.
CexC31_ClassifiedHaveReverse ==
    (Saved /\ Started(0)) =>
        \A k \in DOMAIN coverRecord : CopiesIn(<<k, 1>>, recWrites) >= 1

\* C31, the part the code keeps: every entry of the report was created by an
\* original-mode write, and its covReverse is 0 unless a reverse-mode write
\* has set it.
InvC31_ReverseZeroUnlessWritten ==
    (Saved /\ Started(0)) =>
        \A k \in DOMAIN coverRecord :
            /\ CopiesIn(<<k, 0>>, recWrites) >= 1
            /\ CopiesIn(<<k, 1>>, recWrites) = 0 => coverRecord[k][2] = 0

\* repairProgram has returned or the process has ended in a panic
RepairOver == repairSt.pc \in {"returned", "panic"}

\* C32: repairProgram always terminates; its loop performs at most 25 validation
\* rounds and at most 2 rounds whose error type has no repair; in the round in
\* which the lines validate it returns at once and applies no repair step.
LiveC32_RepairTerminates ==
    /\ <>RepairOver
    /\ [](/\ repairSt.repairCnt <= repairMax
          /\ repairSt.failRepairCnt <= failRepairMax
          /\ repairSt.steps + repairSt.failRepairCnt <= repairSt.repairCnt
          /\ repairSt.err = "nil" =>
                 /\ repairSt.pc = "returned"
                 /\ repairSt.steps + repairSt.failRepairCnt = repairSt.repairCnt - 1)
WitC32_RoundLimitReached ==
    /\ repairSt.pc = "returned"
    /\ repairSt.repairCnt = repairMax
    /\ repairSt.failRepairCnt = 1
    /\ repairSt.err # "nil"

\* the brackets of s left open, or "bad" when a closer meets no matching opener
RECURSIVE OpenAfter(_, _, _)
OpenAfter(s, i, open) ==
    IF i > Len(s) THEN open
    ELSE IF s[i] \in {"(", "{"} THEN OpenAfter(s, i + 1, Append(open, s[i]))
    ELSE IF s[i] \in {")", "}"}
    THEN IF Len(open) > 0 /\ isMatchingPair(open[Len(open)], s[i])
         THEN OpenAfter(s, i + 1, SubSeq(open, 1, Len(open) - 1))
         ELSE <<"bad">>
    ELSE OpenAfter(s, i + 1, open)
\* parentheses and braces of s are balanced and properly nested
Balanced(s) == OpenAfter(s, 1, <<>>) = <<>>
Fixed == parenSt.pc = "fixed"

\* C33: for every input line fixUnbalancedParentheses returns a string in which
\* parentheses and braces are balanced and properly nested, and it returns an
\* already balanced input unchanged.
CexC33_ResultBalanced ==
    Fixed => /\ Balanced(parenSt.result)
             /\ Balanced(parenSt.input) => parenSt.result = parenSt.input
\* what holds: a balanced input is returned unchanged, an input whose closers all
\* meet their opener is closed into a balanced string, and the result is never
\* shorter than the input
InvC33_BalancedUnchanged ==
    Fixed => /\ Balanced(parenSt.input) => parenSt.result = parenSt.input
             /\ OpenAfter(parenSt.input, 1, <<>>) # <<"bad">> => Balanced(parenSt.result)
             /\ Len(parenSt.result) >= Len(parenSt.input)

\* the entries of the directory that checkProgram accepts
Accepted ==
    {i \in 1 .. Len(validSt.files) :
        validSt.files[i].kind # "unreadable" /\ ~checkProgram(validSt.files[i])}
WrittenFiles == {validSt.written[j] : j \in 1 .. Len(validSt.written)}

\* C34: checkPrograms with an output directory copies exactly the programs that
\* checkProgram accepts: the number of files written equals the number of input
\* files minus the returned bad count, and no invalid program is written.
CexC34_CopiesAccepted ==
    (validSt.pc = "returned" /\ validSt.outDir # "") =>
        /\ WrittenFiles = Accepted
        /\ Len(validSt.written) = Len(validSt.files) - validSt.ret
\* what holds: no rejected program is ever written, and a run that reaches its
\* summary line has written exactly the accepted programs, one file each
InvC34_CopiesAcceptedAfterLoop ==
    /\ WrittenFiles \subseteq Accepted
    /\ (validSt.pc = "returned" /\ validSt.summary /\ validSt.outDir # "") =>
           /\ WrittenFiles = Accepted
           /\ Len(validSt.written) = Len(validSt.files) - validSt.ret

\* C35: parse is idempotent on the reverse index: a run of parse after a
\* completed run on the same corpus and directory writes no seed file and adds no
\* entry to the reverse index, and saves the index it loaded.
InvC35_SecondRunAddsNothing ==
    \A r \in 2 .. Len(parseSt.wrote) :
        /\ parseSt.wrote[r] = 0
        /\ parseSt.added[r] = 0
        /\ (r = Len(parseSt.wrote) /\ parseSt.pc \in {"range", "done"}) =>
               /\ parseSt.reverseIndex = parseSt.saved[r - 1].map
               /\ parseSt.pc = "done" => parseSt.indexFile = parseSt.saved[r - 1]
WitC35_SecondRunAfterWrites ==
    /\ parseSt.pc = "done"
    /\ Len(parseSt.wrote) = 2
    /\ parseSt.wrote[1] >= 2
    /\ parseSt.added[1] >= 1

====
